---- MODULE Spec2Model ----
(***************************************************************************)
(* A model of rocket_read_db_pools (src/lib.rs): ReadPool<P>, a pool that  *)
(* owns a mandatory main pool and an optional read pool of the same        *)
(* underlying type P, and the two request guards ReadConnection<D> and     *)
(* RwConnection<D>.                                                        *)
(*                                                                         *)
(* The underlying pool P, the figment configuration and the registry       *)
(* D::fetch are collaborators the file calls; they are modelled by what    *)
(* the calls in lib.rs do to them.                                         *)
(***************************************************************************)
EXTENDS Integers, Sequences, FiniteSets, TLC

(* Slots of each underlying pool: how many connections it can hand out.    *)
MaxConns == 2

(* How many times close() is called in a run.                              *)
MaxCloses == 2

(* The literal 5 of Serialized::default("read.connect_timeout", 5).        *)
DefaultConnectTimeout == 5

VARIABLES
    figment,     \* the configuration handed to ReadPool::init
    phase,       \* "new" | "ready" | "failed": the state of ReadPool::init
    db,          \* the ReadPool value {main, read}, NoDb while none exists
    initCalls,   \* the pools P::init was invoked for, in order
    readCfg,     \* the configuration handed to P::init for the read pool
    pstate,      \* each underlying pool: unbuilt, failed, open, closed, dropped
    managed,     \* whether the ReadPool is in the rocket's managed state
    healthy,     \* whether each underlying pool can reach its database
    held,        \* each connection's owner: Free or the value that owns it
    closeCount,  \* how many times P::close ran on each underlying pool
    closeCalls,  \* how many times ReadPool::close ran
    ev           \* the outcome of the most recent operation

vars == <<figment, phase, db, initCalls, readCfg, pstate, managed, healthy,
          held, closeCount, closeCalls, ev>>

----------------------------------------------------------------------------
(* Values.                                                                 *)

None == "None"

(* The instance the first P::init call builds is P1, the second P2.        *)
Pools == {"P1", "P2"}

NoDb == [main |-> None, read |-> None]

Conns == [pool : Pools, slot : 1..MaxConns]

NoConn == [pool |-> None, slot |-> 0]

NoEvent ==
    [op |-> "none", status |-> "-", err |-> None, conn |-> NoConn,
     src |-> NoConn, asked |-> <<>>, flag |-> FALSE, problems |-> {}]

----------------------------------------------------------------------------
(* Configuration: a finite map from key paths to values.  A dictionary is  *)
(* the set of paths below its key, so no path of a configuration is a      *)
(* proper prefix of another.                                               *)

IsPrefix(p, q) == Len(p) <= Len(q) /\ SubSeq(q, 1, Len(p)) = p

KeyPaths ==
    { <<"max_connections">>, <<"connect_timeout">>, <<"read">>,
      <<"read", "max_connections">>, <<"read", "connect_timeout">>,
      <<"read", "read">>, <<"read", "read", "connect_timeout">> }

PathVals(p) ==
    CASE p = <<"max_connections">> -> {10}
      [] p = <<"connect_timeout">> -> {30}
      [] p = <<"read">> -> {10}
      [] p = <<"read", "max_connections">> -> {20}
      [] p = <<"read", "connect_timeout">> -> {3, 5}
      [] p = <<"read", "read">> -> {10}
      [] OTHER -> {3}

PrefixFree(D) == \A p \in D : \A q \in D : IsPrefix(p, q) => p = q

Figments ==
    UNION { { f \in [D -> {3, 5, 10, 20, 30}] : \A p \in D : f[p] \in PathVals(p) } :
            D \in { E \in SUBSET KeyPaths : PrefixFree(E) } }

EmptyFigment == [p \in {} |-> 0]

(* Figment::contains(key): a value, scalar or dictionary, is at the key.   *)
Contains(fig, k) == \E p \in DOMAIN fig : p[1] = k

(* A focus that layers the dictionary at the key over the keys beside it.  *)
FocusLayered(fig, k) ==
    LET base == { p \in DOMAIN fig : p[1] # k }
        sub == { Tail(p) : p \in { q \in DOMAIN fig : q[1] = k /\ Len(q) > 1 } }
    IN  [p \in base \cup sub |-> IF p \in sub THEN fig[<<k>> \o p] ELSE fig[p]]

(* Figment::focus(key): only the dictionary at the key, its keys without   *)
(* the prefix; a scalar at the key gives the empty figment.                *)
Focus(fig, k) ==
    LET sub == { Tail(p) : p \in { q \in DOMAIN fig : q[1] = k /\ Len(q) > 1 } }
    IN  [p \in sub |-> fig[<<k>> \o p]]

(* Figment::join(Serialized::default(path, v)): the value is nested at the *)
(* key path and added only where the figment holds nothing: a value at the *)
(* path, at a prefix of it or below it is kept.                            *)
Join(fig, path, v) ==
    IF \E q \in DOMAIN fig : IsPrefix(q, path) \/ IsPrefix(path, q)
    THEN fig
    ELSE [p \in DOMAIN fig \cup {path} |-> IF p = path THEN v ELSE fig[p]]

(* The read_config of ReadPool::init.                                      *)
read_config(fig) ==
    Join(Focus(fig, "read"), <<"read", "connect_timeout">>, DefaultConnectTimeout)

----------------------------------------------------------------------------
(* The underlying pool P: init, get and close of rocket_db_pools::Pool.    *)

(* P::init(figment): the pool is built, or the constructor fails.          *)
PoolInitState(ok) == IF ok THEN "open" ELSE "failed"

FreeSlots(p) == { c \in Conns : c.pool = p /\ held[c] = "Free" }

CheckedOut(p) == Cardinality({ c \in Conns : c.pool = p /\ held[c] # "Free" })

CanGet(p) == pstate[p] = "open" /\ healthy[p] /\ FreeSlots(p) # {}

(* The P::Error a failing P::get returns.                                  *)
PoolError(p) ==
    IF pstate[p] # "open" THEN "PoolClosed"
    ELSE IF ~healthy[p] THEN "ConnectFailed"
    ELSE "PoolTimedOut"

(* P::get(): a connection of the pool, or the pool's error.  asked lists   *)
(* the pools whose get was invoked.                                        *)
PoolGet(p) ==
    IF CanGet(p)
    THEN [ok |-> TRUE,
          conn |-> CHOOSE c \in FreeSlots(p) :
                       \A o \in FreeSlots(p) : c.slot <= o.slot,
          err |-> None, asked |-> <<p>>]
    ELSE [ok |-> FALSE, conn |-> NoConn, err |-> PoolError(p), asked |-> <<p>>]

----------------------------------------------------------------------------
(* impl Pool for ReadPool<P>, impl PoolRead for ReadPool<P>.               *)

Unbuilt == [p \in Pools |-> "unbuilt"]

(* An init that degrades to a main-only ReadPool when the read pool fails. *)
init_degrade(fig, mainOk, readOk) ==
    IF ~mainOk
    THEN [ok |-> FALSE, err |-> "InitError:P1", db |-> NoDb,
          calls |-> <<"P1">>, rcfg |-> EmptyFigment,
          pstate |-> [Unbuilt EXCEPT !["P1"] = PoolInitState(FALSE)]]
    ELSE IF Contains(fig, "read") /\ readOk
    THEN [ok |-> TRUE, err |-> None, db |-> [main |-> "P1", read |-> "P2"],
          calls |-> <<"P1", "P2">>, rcfg |-> read_config(fig),
          pstate |-> [Unbuilt EXCEPT !["P1"] = PoolInitState(TRUE),
                                     !["P2"] = PoolInitState(TRUE)]]
    ELSE IF Contains(fig, "read")
    THEN [ok |-> TRUE, err |-> None, db |-> [main |-> "P1", read |-> None],
          calls |-> <<"P1", "P2">>, rcfg |-> read_config(fig),
          pstate |-> [Unbuilt EXCEPT !["P1"] = PoolInitState(TRUE),
                                     !["P2"] = PoolInitState(FALSE)]]
    ELSE [ok |-> TRUE, err |-> None, db |-> [main |-> "P1", read |-> None],
          calls |-> <<"P1">>, rcfg |-> EmptyFigment,
          pstate |-> [Unbuilt EXCEPT !["P1"] = PoolInitState(TRUE)]]

(* An init that keeps the main pool alive (leaked) when the read pool      *)
(* fails.                                                                  *)
init_leak(fig, mainOk, readOk) ==
    IF ~mainOk
    THEN [ok |-> FALSE, err |-> "InitError:P1", db |-> NoDb,
          calls |-> <<"P1">>, rcfg |-> EmptyFigment,
          pstate |-> [Unbuilt EXCEPT !["P1"] = PoolInitState(FALSE)]]
    ELSE IF Contains(fig, "read")
    THEN IF ~readOk
         THEN [ok |-> FALSE, err |-> "InitError:P2", db |-> NoDb,
               calls |-> <<"P1", "P2">>, rcfg |-> read_config(fig),
               pstate |-> [Unbuilt EXCEPT !["P1"] = PoolInitState(TRUE),
                                          !["P2"] = PoolInitState(FALSE)]]
         ELSE [ok |-> TRUE, err |-> None, db |-> [main |-> "P1", read |-> "P2"],
               calls |-> <<"P1", "P2">>, rcfg |-> read_config(fig),
               pstate |-> [Unbuilt EXCEPT !["P1"] = PoolInitState(TRUE),
                                          !["P2"] = PoolInitState(TRUE)]]
    ELSE [ok |-> TRUE, err |-> None, db |-> [main |-> "P1", read |-> None],
          calls |-> <<"P1">>, rcfg |-> EmptyFigment,
          pstate |-> [Unbuilt EXCEPT !["P1"] = PoolInitState(TRUE)]]

(* ReadPool::init: main first; its error returns at once (the ? after     *)
(* .await).  With a "read" key the read pool is built from read_config;    *)
(* its error returns too, and main_pool, a local of init, is dropped: no   *)
(* close() is called on it.                                                *)
init(fig, mainOk, readOk) ==
    IF ~mainOk
    THEN [ok |-> FALSE, err |-> "InitError:P1", db |-> NoDb,
          calls |-> <<"P1">>, rcfg |-> EmptyFigment,
          pstate |-> [Unbuilt EXCEPT !["P1"] = PoolInitState(FALSE)]]
    ELSE IF Contains(fig, "read")
    THEN IF ~readOk
         THEN [ok |-> FALSE, err |-> "InitError:P2", db |-> NoDb,
               calls |-> <<"P1", "P2">>, rcfg |-> read_config(fig),
               pstate |-> [Unbuilt EXCEPT !["P1"] = "dropped",
                                          !["P2"] = PoolInitState(FALSE)]]
         ELSE [ok |-> TRUE, err |-> None, db |-> [main |-> "P1", read |-> "P2"],
               calls |-> <<"P1", "P2">>, rcfg |-> read_config(fig),
               pstate |-> [Unbuilt EXCEPT !["P1"] = PoolInitState(TRUE),
                                          !["P2"] = PoolInitState(TRUE)]]
    ELSE [ok |-> TRUE, err |-> None, db |-> [main |-> "P1", read |-> None],
          calls |-> <<"P1">>, rcfg |-> EmptyFigment,
          pstate |-> [Unbuilt EXCEPT !["P1"] = PoolInitState(TRUE)]]

(* ReadPool::get: self.main.get().                                         *)
get(d) == PoolGet(d.main)

(* A get_read that falls back to main when the read pool's get fails.      *)
get_read_fallback(d) ==
    LET r == PoolGet(IF d.read # None THEN d.read ELSE d.main)
    IN  IF r.ok \/ d.read = None
        THEN r
        ELSE [PoolGet(d.main) EXCEPT !.asked = <<d.read, d.main>>]

(* A get_read that needs a read pool.                                      *)
get_read_no_fallback(d) ==
    IF d.read # None
    THEN PoolGet(d.read)
    ELSE [ok |-> FALSE, conn |-> NoConn, err |-> "NoReadPool", asked |-> <<>>]

(* ReadPool::get_read: self.read.as_ref().unwrap_or(&self.main).get().     *)
get_read(d) == PoolGet(IF d.read # None THEN d.read ELSE d.main)

(* A close that forgets the read pool.                                     *)
close_main_only(d) == <<d.main>>

(* ReadPool::close: the pools P::close is invoked on, in order.            *)
close(d) == <<d.main>> \o (IF d.read # None THEN <<d.read>> ELSE <<>>)

----------------------------------------------------------------------------
(* The request guards.                                                     *)

(* D::fetch(rocket): the managed ReadPool, or none.                        *)
Fetch == IF managed THEN db ELSE NoDb

(* A guard that reports a missing pool as unavailable.                     *)
read_from_request_unavailable ==
    LET d == Fetch
    IN  IF d # NoDb
        THEN LET r == get_read(d)
             IN  IF r.ok
                 THEN [status |-> "Success", err |-> None, conn |-> r.conn,
                       asked |-> r.asked]
                 ELSE [status |-> "ServiceUnavailable", err |-> r.err,
                       conn |-> NoConn, asked |-> r.asked]
        ELSE [status |-> "ServiceUnavailable", err |-> None, conn |-> NoConn,
              asked |-> <<>>]

(* ReadConnection::from_request.                                           *)
read_from_request ==
    LET d == Fetch
    IN  IF d # NoDb
        THEN LET r == get_read(d)
             IN  IF r.ok
                 THEN [status |-> "Success", err |-> None, conn |-> r.conn,
                       asked |-> r.asked]
                 ELSE [status |-> "ServiceUnavailable", err |-> r.err,
                       conn |-> NoConn, asked |-> r.asked]
        ELSE [status |-> "InternalServerError", err |-> None, conn |-> NoConn,
              asked |-> <<>>]

(* A guard that loses the pool's error.                                    *)
rw_from_request_no_error ==
    LET d == Fetch
    IN  IF d # NoDb
        THEN LET r == get(d)
             IN  IF r.ok
                 THEN [status |-> "Success", err |-> None, conn |-> r.conn,
                       asked |-> r.asked]
                 ELSE [status |-> "ServiceUnavailable", err |-> None,
                       conn |-> NoConn, asked |-> r.asked]
        ELSE [status |-> "InternalServerError", err |-> None, conn |-> NoConn,
              asked |-> <<>>]

(* RwConnection::from_request.                                             *)
rw_from_request ==
    LET d == Fetch
    IN  IF d # NoDb
        THEN LET r == get(d)
             IN  IF r.ok
                 THEN [status |-> "Success", err |-> None, conn |-> r.conn,
                       asked |-> r.asked]
                 ELSE [status |-> "ServiceUnavailable", err |-> r.err,
                       conn |-> NoConn, asked |-> r.asked]
        ELSE [status |-> "InternalServerError", err |-> None, conn |-> NoConn,
              asked |-> <<>>]

(* Sentinel::abort of the two guards.                                      *)
read_abort == Fetch = NoDb

rw_abort == Fetch = NoDb

(* A downgrade that asks the read route for a connection of its own.       *)
into_read_connection_reacquire(c) ==
    LET r == get_read(db)
    IN  IF r.ok THEN r.conn ELSE c

(* RwConnection::into_read_connection: self.0, the connection it owns.     *)
into_read_connection(c) == c

(* RwConnection::as_read_connection (and _mut): &self.0.                   *)
as_read_connection(c) == c

----------------------------------------------------------------------------
(* The state machine.                                                      *)

(* The configurations of the runs that go on after init: with and without  *)
(* a "read" section.                                                       *)
RuntimeFigments ==
    { f \in Figments :
        /\ <<"max_connections">> \in DOMAIN f
        /\ DOMAIN f \subseteq { <<"max_connections">>, <<"read", "max_connections">> } }

InitRest ==
    /\ phase = "new"
    /\ db = NoDb
    /\ initCalls = <<>>
    /\ readCfg = EmptyFigment
    /\ pstate = Unbuilt
    /\ managed = FALSE
    /\ healthy = [p \in Pools |-> TRUE]
    /\ held = [c \in Conns |-> "Free"]
    /\ closeCount = [p \in Pools |-> 0]
    /\ closeCalls = 0
    /\ ev = NoEvent

Init == figment \in RuntimeFigments /\ InitRest

InitAll == figment \in Figments /\ InitRest

(* ReadPool::init on the figment, each P::init succeeding or failing.      *)
PoolInit ==
    /\ phase = "new"
    /\ \E mainOk \in BOOLEAN, readOk \in BOOLEAN :
          LET r == init(figment, mainOk, readOk)
          IN  /\ phase' = IF r.ok THEN "ready" ELSE "failed"
              /\ db' = r.db
              /\ initCalls' = r.calls
              /\ readCfg' = r.rcfg
              /\ pstate' = r.pstate
              /\ ev' = [NoEvent EXCEPT !.op = "init",
                                       !.status = IF r.ok THEN "Ok" ELSE "Err",
                                       !.err = r.err, !.asked = r.calls]
    /\ UNCHANGED <<figment, managed, healthy, held, closeCount, closeCalls>>

(* The host puts the ReadPool in the rocket's managed state, where         *)
(* D::fetch finds it.                                                      *)
Manage ==
    /\ phase = "ready"
    /\ ~managed
    /\ managed' = TRUE
    /\ ev' = [NoEvent EXCEPT !.op = "manage"]
    /\ UNCHANGED <<figment, phase, db, initCalls, readCfg, pstate, healthy, held,
                   closeCount, closeCalls>>

(* A request with a ReadConnection<D> guard.                               *)
ReadRequest ==
    LET o == read_from_request
    IN  /\ held' = IF o.status = "Success"
                   THEN [held EXCEPT ![o.conn] = "ReadConnection"]
                   ELSE held
        /\ ev' = [NoEvent EXCEPT !.op = "read_from_request", !.status = o.status,
                                 !.err = o.err, !.conn = o.conn, !.asked = o.asked]
        /\ UNCHANGED <<figment, phase, db, initCalls, readCfg, pstate, managed,
                       healthy, closeCount, closeCalls>>

(* A request with a RwConnection<D> guard.                                 *)
RwRequest ==
    LET o == rw_from_request
    IN  /\ held' = IF o.status = "Success"
                   THEN [held EXCEPT ![o.conn] = "RwConnection"]
                   ELSE held
        /\ ev' = [NoEvent EXCEPT !.op = "rw_from_request", !.status = o.status,
                                 !.err = o.err, !.conn = o.conn, !.asked = o.asked]
        /\ UNCHANGED <<figment, phase, db, initCalls, readCfg, pstate, managed,
                       healthy, closeCount, closeCalls>>

(* The host's pre-dispatch check for a route with a ReadConnection guard.  *)
ReadSentinel ==
    /\ ev' = [NoEvent EXCEPT !.op = "read_abort", !.flag = read_abort]
    /\ UNCHANGED <<figment, phase, db, initCalls, readCfg, pstate, managed,
                   healthy, held, closeCount, closeCalls>>

(* The host's pre-dispatch check for a route with a RwConnection guard.    *)
RwSentinel ==
    /\ ev' = [NoEvent EXCEPT !.op = "rw_abort", !.flag = rw_abort]
    /\ UNCHANGED <<figment, phase, db, initCalls, readCfg, pstate, managed,
                   healthy, held, closeCount, closeCalls>>

(* into_read_connection(self): the RwConnection is consumed and the        *)
(* ReadConnection it held is the result.                                   *)
IntoReadConnection ==
    \E c \in Conns :
        /\ held[c] = "RwConnection"
        /\ LET r == into_read_connection(c)
           IN  /\ held' = [x \in Conns |-> IF x = r THEN "ReadConnection"
                                           ELSE IF x = c THEN "Free"
                                           ELSE held[x]]
               /\ ev' = [NoEvent EXCEPT !.op = "into_read_connection",
                                        !.src = c, !.conn = r]
        /\ UNCHANGED <<figment, phase, db, initCalls, readCfg, pstate, managed,
                       healthy, closeCount, closeCalls>>

(* as_read_connection(&self), as_read_connection_mut(&mut self): a borrow  *)
(* of the ReadConnection inside; the RwConnection stays the owner.         *)
AsReadConnection ==
    \E c \in Conns :
        /\ held[c] = "RwConnection"
        /\ ev' = [NoEvent EXCEPT !.op = "as_read_connection",
                                 !.src = c, !.conn = as_read_connection(c)]
        /\ UNCHANGED <<figment, phase, db, initCalls, readCfg, pstate, managed,
                       healthy, held, closeCount, closeCalls>>

(* into_inner(self) of either guard: the bare connection is what is left.  *)
IntoInner ==
    \E c \in Conns :
        /\ held[c] \in {"ReadConnection", "RwConnection"}
        /\ held' = [held EXCEPT ![c] = "Connection"]
        /\ ev' = [NoEvent EXCEPT !.op = "into_inner"]
        /\ UNCHANGED <<figment, phase, db, initCalls, readCfg, pstate, managed,
                       healthy, closeCount, closeCalls>>

(* The owner of a connection goes out of scope: the connection goes back   *)
(* to its pool.                                                            *)
Release ==
    \E c \in Conns :
        /\ held[c] # "Free"
        /\ held' = [held EXCEPT ![c] = "Free"]
        /\ ev' = [NoEvent EXCEPT !.op = "release"]
        /\ UNCHANGED <<figment, phase, db, initCalls, readCfg, pstate, managed,
                       healthy, closeCount, closeCalls>>

(* ReadPool::close.  P::close returns nothing: whether an underlying close *)
(* met a problem (problems) is not visible to the caller.                  *)
Close ==
    /\ phase = "ready"
    /\ closeCalls < MaxCloses
    /\ \E problems \in SUBSET Pools :
          LET cl == close(db)
              n(p) == Cardinality({ i \in 1..Len(cl) : cl[i] = p })
          IN  /\ pstate' = [p \in Pools |-> IF n(p) > 0 THEN "closed" ELSE pstate[p]]
              /\ closeCount' = [p \in Pools |-> closeCount[p] + n(p)]
              /\ ev' = [NoEvent EXCEPT !.op = "close", !.asked = cl,
                                       !.problems = problems]
    /\ closeCalls' = closeCalls + 1
    /\ UNCHANGED <<figment, phase, db, initCalls, readCfg, managed, healthy, held>>

(* The database behind an open pool goes away or comes back.               *)
Health ==
    \E p \in Pools :
        /\ pstate[p] = "open"
        /\ healthy' = [healthy EXCEPT ![p] = ~healthy[p]]
        /\ ev' = [NoEvent EXCEPT !.op = "health"]
        /\ UNCHANGED <<figment, phase, db, initCalls, readCfg, pstate, managed,
                       held, closeCount, closeCalls>>

Next ==
    \/ PoolInit
    \/ Manage
    \/ ReadRequest
    \/ RwRequest
    \/ ReadSentinel
    \/ RwSentinel
    \/ IntoReadConnection
    \/ AsReadConnection
    \/ IntoInner
    \/ Release
    \/ Close
    \/ Health

Spec == Init /\ [][Next]_vars

(* ReadPool::init alone, over every configuration.                         *)
InitSpec == InitAll /\ [][PoolInit]_vars

----------------------------------------------------------------------------
(* Properties.                                                             *)

IsRequest(e) == e.op \in {"read_from_request", "rw_from_request"}

(* The pool a read is routed to: the read pool if there is one.            *)
ReadTarget == IF db.read # None THEN db.read ELSE db.main

(* C1: with a "read" section, a request for a RwConnection asks main (P1)  *)
(* and only main, a request for a ReadConnection asks the read pool (P2)   *)
(* and only it, whatever the two pools' health: a connection a read guard  *)
(* obtained is the read pool's, and a failed read request has not touched  *)
(* main.                                                                   *)
C1_RoutingWithReplica ==
    Contains(figment, "read") =>
        /\ (ev.op = "read_from_request" /\ managed) =>
              /\ ev.asked = <<"P2">>
              /\ ev.status = "Success" => ev.conn.pool = "P2"
              /\ ev.status # "Success" => ev.conn = NoConn
        /\ (ev.op = "rw_from_request" /\ managed) =>
              /\ ev.asked = <<"P1">>
              /\ ev.status = "Success" => ev.conn.pool = "P1"
        /\ \A c \in Conns : held[c] = "RwConnection" => c.pool = "P1"

(* A read request failed on the read pool while main could have served it. *)
C1_Witness ==
    /\ Contains(figment, "read")
    /\ ev.op = "read_from_request"
    /\ ev.status = "ServiceUnavailable"
    /\ ~CanGet("P2")
    /\ CanGet("P1")

(* C2: without a "read" section the ReadPool has read = None for as long   *)
(* as it exists, no second pool is ever built, requests for either guard   *)
(* ask main (P1), and a read request fails only when main itself cannot    *)
(* hand out a connection.                                                  *)
C2_FallbackWithoutReplica ==
    ~Contains(figment, "read") =>
        /\ db # NoDb => (db.main = "P1" /\ db.read = None)
        /\ pstate["P2"] = "unbuilt"
        /\ (IsRequest(ev) /\ managed) =>
              /\ ev.asked = <<"P1">>
              /\ ev.status = "Success" => ev.conn.pool = "P1"
        /\ (ev.op = "read_from_request" /\ managed /\ ev.status # "Success") =>
              ~CanGet("P1")

(* A read request was served by main, there being no read pool.            *)
C2_Witness ==
    /\ ~Contains(figment, "read")
    /\ ev.op = "read_from_request"
    /\ ev.status = "Success"
    /\ ev.conn.pool = "P1"
    /\ held[ev.conn] = "ReadConnection"

(* C3: a failing constructor fails init as a whole: when main's fails no   *)
(* ReadPool exists and the read pool's constructor was not called; when    *)
(* the read pool's fails no ReadPool exists; and a ReadPool that exists    *)
(* for a configuration with a "read" section has both pools built.         *)
C3_InitAllOrNothing ==
    /\ pstate["P1"] = "failed" =>
          (db = NoDb /\ phase = "failed" /\ initCalls = <<"P1">>
           /\ pstate["P2"] = "unbuilt")
    /\ pstate["P2"] = "failed" => (db = NoDb /\ phase = "failed")
    /\ phase = "failed" <=> (\E p \in Pools : pstate[p] = "failed")
    /\ db # NoDb =>
          /\ phase = "ready"
          /\ db.main = "P1"
          /\ pstate["P1"] \in {"open", "closed"}
          /\ Contains(figment, "read") =>
                (db.read = "P2" /\ pstate["P2"] \in {"open", "closed"})

(* The read pool's constructor failed after main was built.                *)
C3_Witness ==
    /\ initCalls = <<"P1", "P2">>
    /\ pstate["P2"] = "failed"
    /\ db = NoDb

(* C4: after an init that failed, no pool it built is still open: the main *)
(* pool built before the read pool's constructor failed has been released  *)
(* (dropped with the failed init, or closed).                              *)
C4_NoPoolOutlivesFailedInit ==
    phase = "failed" =>
        /\ \A p \in Pools : pstate[p] # "open"
        /\ pstate["P2"] = "failed" => pstate["P1"] \in {"closed", "dropped"}

(* Init failed at the read pool, and the main pool it had built is gone.   *)
C4_Witness ==
    /\ phase = "failed"
    /\ ev.err = "InitError:P2"
    /\ pstate["P1"] = "dropped"

(* C5: a request for either guard, with the pool managed, whose underlying *)
(* get fails, ends ServiceUnavailable with the error of the pool asked,    *)
(* after asking that pool once and no other; no connection is handed out.  *)
C5_AcquireFailureIsServiceUnavailable ==
    [][ /\ (ev'.op = "read_from_request" /\ managed /\ ~CanGet(ReadTarget)) =>
              /\ ev'.status = "ServiceUnavailable"
              /\ ev'.err = PoolError(ReadTarget)
              /\ ev'.err # None
              /\ ev'.asked = <<ReadTarget>>
              /\ held' = held
        /\ (ev'.op = "rw_from_request" /\ managed /\ ~CanGet(db.main)) =>
              /\ ev'.status = "ServiceUnavailable"
              /\ ev'.err = PoolError(db.main)
              /\ ev'.err # None
              /\ ev'.asked = <<db.main>>
              /\ held' = held ]_vars

(* A RwConnection request failed because main had no slot left.            *)
C5_Witness ==
    /\ ev.op = "rw_from_request"
    /\ ev.status = "ServiceUnavailable"
    /\ ev.err = "PoolTimedOut"
    /\ CheckedOut("P1") = MaxConns

(* C6: with no pool managed, a request for either guard ends               *)
(* InternalServerError with no error, no pool was asked and no connection  *)
(* is out; and abort of either guard is true exactly when no pool is       *)
(* managed, read pool or not.                                              *)
C6_UnregisteredIsInternalServerError ==
    /\ (IsRequest(ev) /\ ~managed) =>
          /\ ev.status = "InternalServerError"
          /\ ev.err = None
          /\ ev.asked = <<>>
          /\ ev.conn = NoConn
    /\ (IsRequest(ev) /\ managed) => ev.status # "InternalServerError"
    /\ ev.op \in {"read_abort", "rw_abort"} => (ev.flag <=> ~managed)
    /\ ~managed => \A c \in Conns : held[c] = "Free"

(* A read request found nothing managed while a ReadPool with a read pool  *)
(* had been built.                                                         *)
C6_Witness ==
    /\ ev.op = "read_from_request"
    /\ ev.status = "InternalServerError"
    /\ db # NoDb
    /\ db.read = "P2"
    /\ ~managed

(* C7: every close() has closed main once and the read pool once if there  *)
(* is one (never otherwise), main first, whether or not an underlying      *)
(* close met a problem.                                                    *)
C7_CloseBoth ==
    /\ closeCount["P1"] = closeCalls
    /\ closeCount["P2"] = IF db.read # None THEN closeCalls ELSE 0
    /\ ev.op = "close" =>
          ev.asked = <<"P1">> \o (IF Contains(figment, "read") THEN <<"P2">> ELSE <<>>)
    /\ closeCalls > 0 =>
          /\ pstate["P1"] = "closed"
          /\ db.read # None => pstate["P2"] = "closed"

(* A close whose close of main met a problem has closed the read pool.     *)
C7_Witness ==
    /\ ev.op = "close"
    /\ "P1" \in ev.problems
    /\ db.read = "P2"
    /\ pstate["P2"] = "closed"
    /\ closeCount["P2"] = closeCalls

(* C8: a downgrade of a RwConnection gives the connection the RwConnection *)
(* owned, which is main's; it changes no other connection's owner and      *)
(* leaves the number of connections out of each pool as it was.            *)
C8_DowngradeKeepsConnection ==
    [][ ev'.op \in {"into_read_connection", "as_read_connection"} =>
            /\ held[ev'.src] = "RwConnection"
            /\ ev'.conn = ev'.src
            /\ ev'.conn.pool = db.main
            /\ held'[ev'.src] = IF ev'.op = "into_read_connection"
                                THEN "ReadConnection" ELSE "RwConnection"
            /\ \A x \in Conns \ {ev'.src} : held'[x] = held[x]
            /\ \A p \in Pools : CheckedOut(p)' = CheckedOut(p) ]_vars

(* A RwConnection was downgraded for good while a read pool was there.     *)
C8_Witness ==
    /\ ev.op = "into_read_connection"
    /\ db.read = "P2"
    /\ CanGet("P2")
    /\ ev.conn.pool = "P1"
    /\ held[ev.conn] = "ReadConnection"

ReadInitCalled == Len(initCalls) = 2

BaseKeys == { <<"max_connections">>, <<"connect_timeout">> }

InRead(p) == (<<"read">> \o p) \in DOMAIN figment

(* The figment has a "read" section, a dictionary at the key, and the      *)
(* section has no key "read" of its own.                                   *)
HasReadSection ==
    /\ \E p \in DOMAIN figment : p[1] = "read" /\ Len(p) > 1
    /\ \A p \in DOMAIN figment : ~IsPrefix(<<"read", "read">>, p)

(* C9 as claimed: for every key of the base section, the read pool's       *)
(* configuration has the "read" section's value if the key is there, and   *)
(* the base section's value otherwise.                                     *)
C9_LayeredOverBase ==
    (ReadInitCalled /\ HasReadSection) =>
        \A k \in BaseKeys :
            /\ InRead(k) => (k \in DOMAIN readCfg /\ readCfg[k] = figment[<<"read">> \o k])
            /\ (~InRead(k) /\ k \in DOMAIN figment) =>
                  (k \in DOMAIN readCfg /\ readCfg[k] = figment[k])

(* C9 as amended: the read pool's configuration is the "read" section      *)
(* alone.  For every key path but read.connect_timeout, it has the path    *)
(* exactly when the "read" section has it, with that value: a key set only *)
(* in the base section is not inherited.                                   *)
C9_ReadSectionOnly ==
    ReadInitCalled =>
        \A p \in (KeyPaths \cup DOMAIN readCfg) \ { <<"read", "connect_timeout">> } :
            /\ p \in DOMAIN readCfg <=> InRead(p)
            /\ p \in DOMAIN readCfg => readCfg[p] = figment[<<"read">> \o p]

(* The read pool was built from a configuration without the                *)
(* max_connections that only the base section sets.                        *)
C9_Witness ==
    /\ ReadInitCalled
    /\ <<"max_connections">> \in DOMAIN figment
    /\ ~InRead(<<"max_connections">>)
    /\ InRead(<<"connect_timeout">>)
    /\ <<"max_connections">> \notin DOMAIN readCfg

(* C10: in the configuration handed to the read pool's constructor,        *)
(* connect_timeout is the value the "read" section sets and, when neither  *)
(* the "read" section nor the base section sets it, 5.                     *)
C10_DefaultConnectTimeout ==
    (ReadInitCalled /\ HasReadSection) =>
        /\ InRead(<<"connect_timeout">>) =>
              /\ <<"connect_timeout">> \in DOMAIN readCfg
              /\ readCfg[<<"connect_timeout">>] = figment[<<"read", "connect_timeout">>]
        /\ (~InRead(<<"connect_timeout">>) /\ <<"connect_timeout">> \notin DOMAIN figment) =>
              /\ <<"connect_timeout">> \in DOMAIN readCfg
              /\ readCfg[<<"connect_timeout">>] = DefaultConnectTimeout

====
